---- MODULE Spec2Model ----
(***************************************************************************)
(* Model of the leo-chat ingest / index pipeline.                          *)
(*                                                                         *)
(*   - MetadataStore: the MongoDB collections `articles` and `chunks`      *)
(*     behind DatabaseService (services/db_service.py).                    *)
(*   - IndexingCoordinator: DocumentProcessor (processing/processor.py),   *)
(*     its in-memory FAISS index and the persisted index file.             *)
(*   - Crawler: USAOScraper.scrape_all_articles and BaseScraper            *)
(*     (scraping/scraper.py), one scraper object per crawl session.        *)
(*   - Retriever: DocumentRetriever.search (retrieval/retriever.py) over   *)
(*     the index file and the two collections.                             *)
(***************************************************************************)
EXTENDS Integers, Sequences, FiniteSets, TLC

\* ---------------------------------------------------------------- bounds
NumDocs == 2            \* documents waiting in the store at start
MaxNew == 5             \* vectors a run may append beyond the initial index
MaxStored == 7          \* chunk documents a run may persist
MaxIds == 2             \* longest explicit id list handed to process_articles
MaxCap == 2             \* largest max_articles cap given to a scraper
MaxThreshold == 2       \* largest max_pages_without_new a scraper runs with
MaxWords == 9           \* longest text (in words) chunked with small windows
MaxWindow == 4          \* largest small window
MaxVecs == 3            \* largest vector index a search runs against
MaxK == 3               \* largest k a search is called with
MaxPartial == 1         \* documents a failed insert_many may leave inserted

\* ------------------------------------------------------ program constants
CHUNK_SIZE == 300       \* config.py: words per chunk
CHUNK_OVERLAP == 50     \* config.py: words shared by neighbouring chunks
BATCH_SIZE == 100       \* processor.py: get_unprocessed_articles(batch_size=100)
SCRAPE_DELAY == 1       \* config.py: seconds between requests
max_retries == 3        \* scraper.py, fetch_page: attempts per URL
RETRY_SLEEP == 1        \* scraper.py, fetch_page: asyncio.sleep(1) before a retry

None == -1              \* Python's None for Optional[int] fields

Coordinators == {1, 2}
DocIds == 1..NumDocs
MissingId == NumDocs + 1                 \* an id no article carries
\* body length (in words) of the documents waiting in the store: bodies of
\* 2, 5 and 0 chunks
DocWords(d) == IF d = 1 THEN 300 ELSE IF d = 2 THEN 1250 ELSE 0
InitSizes == {0, 10}                     \* index size before the run

VARIABLES
    articles,     \* db.articles: set of [id, url, processed, words]
    chunksColl,   \* db.chunks: sequence (insertion order) of chunk documents
    indexFile,    \* INDEX_FILE on disk: [exists, vecs]
    cpc,          \* per DocumentProcessor: position in its life cycle
    cindex,       \* per DocumentProcessor: self.index (in-memory FAISS index)
    cbatch,       \* per DocumentProcessor: the chunk list of the current call
    cbase,        \* history: index.ntotal when index_chunks started
    ccall,        \* per DocumentProcessor: the article_ids argument its
                  \* caller prepared (given, ids), and history of its
                  \* index_chunks call: the number of texts embedded,
                  \* whether it repeats a call that failed, and how many
                  \* Chunk objects of its list are in db.chunks already
    overlapped,   \* history: a processor was constructed while another lived
    crashed,      \* history: a process died in the middle of a call
    site,         \* the crawled source: [pages, tail], listing page -> links
    nextOid,      \* the next fresh ObjectId (Article.id default_factory)
    scr,          \* per scraper object: its fields and the locals of its
                  \* scrape_all_articles call
    hist,         \* per scraper object: history of what the session did
    run,          \* the run_scrapers call: [concurrent]
    chk,          \* a call of _create_chunks: its input and its result
    srch          \* a call of DocumentRetriever.search: arguments, the hits
                  \* of index.search, loop position and results

indexVars == <<chunksColl, indexFile, cpc, cindex, cbatch, cbase, ccall,
               overlapped, crashed>>
crawlVars == <<site, nextOid, scr, hist, run, chk, srch>>
crawlFixed == <<site, run, chk, srch>>         \* what no step of a session changes
vars == <<articles, indexVars, crawlVars>>

\* ------------------------------------------------------------- helpers
Min(a, b) == IF a < b THEN a ELSE b

\* the numbers of S in ascending order
SeqOfSet(S) ==
    IF S = {} THEN <<>>
    ELSE LET lo == CHOOSE x \in S : \A y \in S : x <= y
             hi == CHOOSE x \in S : \A y \in S : y <= x
             InS(x) == x \in S
         IN  SelectSeq([i \in 1..(hi - lo + 1) |-> lo + i - 1], InS)

RECURSIVE Flatten(_)
Flatten(ss) ==
    IF ss = <<>> THEN <<>>
    ELSE IF Len(ss) = 1 THEN ss[1]
    ELSE LET h == Len(ss) \div 2
         IN  Flatten(SubSeq(ss, 1, h)) \o Flatten(SubSeq(ss, h + 1, Len(ss)))

Take(s, n) == SubSeq(s, 1, Min(n, Len(s)))

\* ------------------------------------------------------------- Chunker
\* for i in range(0, len(words), w - o): chunks.append({text: words[i:i+w],
\*                                                      index: len(chunks)})
\* the step of range(0, len(words), CHUNK_SIZE - CHUNK_OVERLAP)
StrideNoOverlap(w, o) == w
Stride(w, o) == w - o

RECURSIVE ChunkLoop(_, _, _, _, _)
ChunkLoop(i, n, w, o, chunks) ==
    IF i >= n THEN chunks
    ELSE ChunkLoop(i + Stride(w, o), n, w, o,
                   Append(chunks, [text  |-> <<i, Min(i + w, n)>>,
                                   index |-> Len(chunks)]))

create_chunks(n) == ChunkLoop(0, n, CHUNK_SIZE, CHUNK_OVERLAP, <<>>)

\* no call of the chunker under way
ChunkerIdle == [pc |-> "idle", n |-> 0, w |-> CHUNK_SIZE, o |-> CHUNK_OVERLAP,
                chunks |-> <<>>]

\* text lengths chunked with the configured window and overlap
ConfigLengths == {0, 1, 50, 51, 250, 251, 300, 301, 550, 551, 620}

\* the calls of the chunker looked at: every small text with every small
\* window and overlap, and the configured window on longer texts
ChunkerInputs ==
    {[n |-> n, w |-> w, o |-> o] :
        n \in 0..MaxWords, w \in 1..MaxWindow, o \in 0..(MaxWindow - 1)}
    \cup {[n |-> n, w |-> CHUNK_SIZE, o |-> CHUNK_OVERLAP] : n \in ConfigLengths}

\* no call of search under way
SearchIdle == [pc |-> "idle", k |-> 0, sources |-> {}, dist |-> <<>>,
               order |-> <<>>, hits |-> <<>>, i |-> 0, results |-> <<>>]

\* ------------------------------------------------------------- Embedder
\* model.encode: an opaque deterministic function of the text
Encode(text) == [emb |-> text]

\* ------------------------------------------------------- MetadataStore
ArticleById(id) == {a \in articles : a.id = id}

\* db.articles.find_one({"_id": id})
get_article(id) ==
    IF ArticleById(id) = {} THEN <<>>
    ELSE <<CHOOSE a \in ArticleById(id) : TRUE>>

\* db.articles.find({"processed": {"$ne": True}}, limit=batch_size)
get_all_unprocessed(batch_size) ==
    LET ids == SeqOfSet({a.id : a \in {x \in articles : ~x.processed}})
    IN  [k \in 1..Len(ids) |-> CHOOSE a \in articles : a.id = ids[k]]
get_processed_articles(batch_size) ==
    LET ids == SeqOfSet({a.id : a \in {x \in articles : x.processed}})
    IN  Take([k \in 1..Len(ids) |-> CHOOSE a \in articles : a.id = ids[k]],
             batch_size)
get_unprocessed_articles(batch_size) ==
    LET ids == SeqOfSet({a.id : a \in {x \in articles : ~x.processed}})
    IN  Take([k \in 1..Len(ids) |-> CHOOSE a \in articles : a.id = ids[k]],
             batch_size)

\* db.articles.update_one({"_id": id}, {"$set": {"processed": True}})
mark_article_processed(arts, id) ==
    {IF a.id = id THEN [a EXCEPT !.processed = TRUE] ELSE a : a \in arts}

\* mark_article_processed for every id of the list: the store after the
\* last of them
MarkNone(arts, ids) == arts
MarkAll(arts, ids) ==
    UNION {mark_article_processed({a}, a.id) :
              a \in {x \in arts : \E k \in 1..Len(ids) : ids[k] = x.id}}
    \cup {x \in arts : \A k \in 1..Len(ids) : ids[k] # x.id}

\* ------------------------------------------------- DocumentProcessor
\* _load_or_create_index
load_or_create_index == IF indexFile.exists THEN indexFile.vecs ELSE <<>>

\* the Chunk objects built for one article (faiss_id defaults to None)
ChunkObjects(a) ==
    LET cs == create_chunks(a.words)
    IN  [k \in 1..Len(cs) |->
            [article_id  |-> a.id,
             chunk_index |-> cs[k].index,
             text        |-> <<a.id>> \o cs[k].text,
             faiss_id    |-> None]]

\* the articles a call of process_articles works on
RECURSIVE LookupAll(_)
LookupAll(ids) ==
    IF ids = <<>> THEN <<>>
    ELSE get_article(Head(ids)) \o LookupAll(Tail(ids))

SelectArticles(req) ==
    IF req.given /\ req.ids # <<>>          \* `if article_ids:`
    THEN LookupAll(req.ids)
    ELSE get_unprocessed_articles(BATCH_SIZE)

AllChunks(arts) == Flatten([k \in 1..Len(arts) |-> ChunkObjects(arts[k])])

\* faiss_ids = list(range(index.ntotal, index.ntotal + len(embeddings)))
FaissIdsShifted(ntotal, n) == [i \in 1..n |-> ntotal + i]
FaissIds(ntotal, n) == [i \in 1..n |-> ntotal + i - 1]

\* for chunk, faiss_id in zip(chunks, faiss_ids): chunk.faiss_id = faiss_id
AssignIds(chunks, ids) ==
    [i \in 1..Min(Len(chunks), Len(ids)) |->
        [chunks[i] EXCEPT !.faiss_id = ids[i]]]
        \o SubSeq(chunks, Min(Len(chunks), Len(ids)) + 1, Len(chunks))

Requests ==
    {[given |-> FALSE, ids |-> <<>>]} \cup
    {[given |-> TRUE, ids |-> s] :
        s \in UNION {[1..n -> DocIds \cup {MissingId}] : n \in 0..MaxIds}}

\* the document (2500 words, 10 chunks) chunked and indexed before the run
LegacyArticle == [id |-> 0, url |-> 0, processed |-> TRUE, words |-> 2500]

\* no argument prepared and no index_chunks call made on a processor
NoCall == [given |-> FALSE, ids |-> <<>>, encoded |-> 0, retry |-> FALSE,
           stored |-> 0]

\* index_chunks line 90: `if not chunks: return`
NoChunksNever(chunks) == FALSE
NoChunks(chunks) == chunks = <<>>

Live(c) == cpc[c] # "none"
CanStartCall(c) == cpc[c] \in {"idle", "indexed", "failed"}
\* size of the index the run started from
InitSize == IF ArticleById(LegacyArticle.id) # {}
            THEN Len(create_chunks(LegacyArticle.words)) ELSE 0


\* ------------------------------------------------------------- Crawler
Sessions == {1, 2}
\* max_articles: 0 and None are the same to every `self.max_articles and ...`
Caps == 0..MaxCap
Thresholds == 1..MaxThreshold           \* max_pages_without_new (10 by default)

\* the sources crawled: the listing at page p is pages[p+1], and `tail` for
\* every page number past the listed ones
Sites ==
    { [pages |-> << <<1, 2, 3>> >>,           tail |-> <<1, 2, 3>>],
      [pages |-> << <<1, 2>>, <<3>> >>,       tail |-> <<>>],
      [pages |-> << <<1>>, <<1>>, <<2>> >>,   tail |-> <<>>] }

\* the source two overlapping sessions crawl
SharedSites == { [pages |-> << <<1, 2>> >>, tail |-> <<>>] }

PageLinks(p) == IF p < Len(site.pages) THEN site.pages[p + 1] ELSE site.tail

\* the scraper classes run_scrapers can build
Kinds == {"usao", "latimes"}

\* parse_article_links: USAOScraper collects the listed links,
\* LATimesScraper returns []
parse_article_links(kind, p) == IF kind = "latimes" THEN <<>> ELSE PageLinks(p)

\* `if not article_links: break`
NoLinksNever(article_links) == FALSE
NoLinks(article_links) == article_links = <<>>

\* what one HTTP attempt of fetch_page can come to: status 200 with a body,
\* another status, or an exception of session.get / response.text
Responses == {"200", "status", "exception"}

\* fetch_page line 100: `attempt == max_retries - 1`
LastAttempt(attempt) == attempt = max_retries - 1

\* fetch_page, `for attempt in range(max_retries)`: the next attempt
RetrySameAttempt(attempt) == attempt
RetryAttempt(attempt) == attempt + 1

\* DatabaseService.__init__ calls the coroutine function _setup_indexes()
\* without awaiting it, so its body (the create_index calls) never runs
SetupIndexesAwaited == FALSE
UniqueUrlIndex == SetupIndexesAwaited      \* articles.url unique
UniqueFaissIdIndex == SetupIndexesAwaited  \* chunks.faiss_id unique

StoredUrls == {a.url : a \in articles}

\* db.articles.count_documents({"url": url}) > 0
ArticleExistsNever(url) == FALSE
ArticleExists(url) == Cardinality({a \in articles : a.url = url}) > 0

\* `self.max_articles and self.new_articles_found >= self.max_articles`
CapReachedLate(x) == x.max_articles # 0 /\ x.new_articles_found > x.max_articles
CapReached(x) == x.max_articles # 0 /\ x.new_articles_found >= x.max_articles

\* lines 241-244: the empty-page counter after a page
PagesWithoutNewSticky(new_on_page, pages_without_new) == pages_without_new + 1
PagesWithoutNew(new_on_page, pages_without_new) ==
    IF new_on_page = 0 THEN pages_without_new + 1 ELSE 0

\* Article(...) built by _save_article: a fresh id, processed=False
NewArticle(url) == [id |-> nextOid, url |-> url, processed |-> FALSE, words |-> 300]

MinOf(S) == CHOOSE x \in S : \A y \in S : x <= y

\* articles.update_one({"url": url}, {"$set": article.dict(by_alias=True)},
\*                     upsert=True)
\* `matched` are the ids the query phase found.  Without a unique index on
\* url the insert of an upsert is not guarded against a document stored
\* since the query phase; with one the duplicate key turns the upsert into
\* an update.  The $set carries the article's own _id: on a stored document
\* with another _id the server rejects the update (_id is immutable).
UpdateOneUpsertSetsFields(arts, article, matched) ==
    LET hit == IF matched # {} THEN matched ELSE {}
    IN  IF hit = {}
        THEN [arts |-> arts \cup {article}, result |-> "upserted"]
        ELSE [arts |-> {a \in arts : a.id # MinOf(hit)}
                          \cup {[article EXCEPT !.id = MinOf(hit)]},
              result |-> "modified"]
UpdateOneUpsert(arts, article, matched) ==
    LET now == {a.id : a \in {x \in arts : x.url = article.url}}
        hit == IF matched # {} THEN matched
               ELSE IF UniqueUrlIndex THEN now ELSE {}
    IN  IF hit = {}
        THEN [arts |-> arts \cup {article}, result |-> "upserted"]
        ELSE IF MinOf(hit) # article.id
             THEN [arts |-> arts, result |-> "error"]
             ELSE [arts |-> {a \in arts : a.id # article.id} \cup {article},
                   result |-> "modified"]

NoArticle == [id |-> 0, url |-> 0, processed |-> FALSE, words |-> 0]

CurUrl(x) == x.article_links[x.link]

NextLink(x) == [x EXCEPT !.link = x.link + 1, !.pc = "LinkLoop",
                         !.article = NoArticle, !.matched = {}]

\* ------------------------------------------------------------- Init
LegacyChunks == AssignIds(ChunkObjects(LegacyArticle),
                          [i \in 1..Len(ChunkObjects(LegacyArticle)) |-> i - 1])

\* BaseScraper.__init__ and the locals of scrape_all_articles
ScraperInit(kind, cap, th) ==
    [pc |-> "Idle", kind |-> kind,
     max_articles |-> cap, max_pages_without_new |-> th,
     new_articles_found |-> 0, pages_without_new |-> 0,
     page |-> 0, article_links |-> <<>>, link |-> 1, new_on_page |-> 0,
     attempt |-> 0, article |-> NoArticle, matched |-> {}]

HistInit ==
    [saved |-> 0, pageFetches |-> 0,
     checkedUrl |-> 0, absentAtCheck |-> FALSE,
     emptyRun |-> 0, savedAtPage |-> 0, clean |-> TRUE,
     lastInsert |-> "none", insertUrl |-> 0, urlWasStored |-> FALSE,
     inserted |-> 0,
     stop |-> "none",           \* the statement that ended the page loop
     zeroRun |-> 0,             \* consecutive listing pages without links
     zeroSavePage |-> FALSE,    \* a fetched listing page gave no new save
     requests |-> 0,            \* HTTP attempts made for the URL being fetched
     backoffs |-> 0,            \* retry sleeps taken for that URL
     waited |-> SCRAPE_DELAY,   \* seconds slept since the last HTTP request
     lastScrape |-> "none",     \* what the last scrape_article came to
     savedIds |-> {},           \* the documents the session saved
     returned |-> {}]           \* what scrape_source returned for the session

ScrapersIdle ==
    /\ site = [pages |-> <<>>, tail |-> <<>>]
    /\ nextOid = 1
    /\ scr = [s \in Sessions |-> ScraperInit("usao", 0, 1)]
    /\ hist = [s \in Sessions |-> HistInit]
    /\ run = [concurrent |-> FALSE]

CrawlIdle == ScrapersIdle /\ chk = ChunkerIdle /\ srch = SearchIdle

InitIndex ==
    /\ CrawlIdle
    /\ \E t \in InitSizes :
        /\ articles = {[id |-> d, url |-> d, processed |-> FALSE,
                        words |-> DocWords(d)] : d \in DocIds}
                      \cup (IF t = 0 THEN {} ELSE {LegacyArticle})
        /\ chunksColl = (IF t = 0 THEN <<>> ELSE LegacyChunks)
        /\ indexFile = (IF t = 0
                        THEN [exists |-> FALSE, vecs |-> <<>>]
                        ELSE [exists |-> TRUE,
                              vecs |-> [i \in 1..Len(LegacyChunks) |->
                                           Encode(LegacyChunks[i].text)]])
    /\ cpc = [c \in Coordinators |-> "none"]
    /\ cindex = [c \in Coordinators |-> <<>>]
    /\ cbatch = [c \in Coordinators |-> <<>>]
    /\ cbase = [c \in Coordinators |-> 0]
    /\ ccall = [c \in Coordinators |-> NoCall]
    /\ overlapped = FALSE
    /\ crashed = FALSE

\* ------------------------------------------------------------- actions
\* DocumentProcessor.__init__: self.index = self._load_or_create_index()
NewProcessor(c) ==
    /\ cpc[c] = "none"
    /\ \A o \in Coordinators : o < c => Live(o)     \* lowest free slot
    /\ cpc' = [cpc EXCEPT ![c] = "idle"]
    /\ cindex' = [cindex EXCEPT ![c] = load_or_create_index]
    /\ cbatch' = [cbatch EXCEPT ![c] = <<>>]
    /\ cbase' = [cbase EXCEPT ![c] = 0]
    /\ ccall' = [ccall EXCEPT ![c] = NoCall]
    /\ overlapped' = (overlapped \/ \E o \in Coordinators \ {c} : Live(o))
    /\ UNCHANGED <<crawlVars, articles, chunksColl, indexFile, crashed>>

\* process_articles: chunk every selected article and mark it processed
ProcessArticles(c, req) ==
    /\ CanStartCall(c)
    /\ LET arts == SelectArticles(req)
           all_chunks == AllChunks(arts)
       IN  /\ Len(cindex[c]) + Len(all_chunks) <= InitSize + MaxNew
           /\ Len(chunksColl) + Len(all_chunks) <= InitSize + MaxStored
           /\ cbatch' = [cbatch EXCEPT ![c] = all_chunks]
           /\ articles' = MarkAll(articles, [k \in 1..Len(arts) |-> arts[k].id])
    /\ cpc' = [cpc EXCEPT ![c] = "chunked"]
    /\ ccall' = [ccall EXCEPT ![c].encoded = 0, ![c].retry = FALSE,
                             ![c].stored = 0]
    /\ UNCHANGED <<crawlVars, chunksColl, indexFile, cindex, cbase, overlapped, crashed>>

\* index_chunks on an empty list: `if not chunks: return`
IndexChunksEmpty(c) ==
    /\ cpc[c] = "chunked"
    /\ NoChunks(cbatch[c])
    /\ cpc' = [cpc EXCEPT ![c] = "indexed"]
    /\ cbase' = [cbase EXCEPT ![c] = Len(cindex[c])]
    /\ UNCHANGED <<crawlVars, articles, chunksColl, indexFile, cindex, cbatch,
                   ccall, overlapped, crashed>>

\* index_chunks lines 94-103: encode, reserve ids, index.add, assign ids
IndexAdd(c) ==
    /\ cpc[c] = "chunked"
    /\ ~NoChunks(cbatch[c])
    /\ LET chunks == cbatch[c]
           embeddings == [i \in 1..Len(chunks) |-> Encode(chunks[i].text)]
           faiss_ids == FaissIds(Len(cindex[c]), Len(embeddings))
       IN  /\ cindex' = [cindex EXCEPT ![c] = cindex[c] \o embeddings]
           /\ cbatch' = [cbatch EXCEPT ![c] = AssignIds(chunks, faiss_ids)]
           /\ ccall' = [ccall EXCEPT ![c].encoded = Len(chunks)]
    /\ cbase' = [cbase EXCEPT ![c] = Len(cindex[c])]
    /\ cpc' = [cpc EXCEPT ![c] = "appended"]
    /\ UNCHANGED <<crawlVars, articles, chunksColl, indexFile, overlapped, crashed>>

\* insert_many accepts the batch: none of its documents is in db.chunks
\* already (`_id`, from Chunk.id's default_factory, is unique in every
\* collection) and, were the faiss_id index created, none of its ids is taken
CanInsert(c) ==
    /\ ccall[c].stored = 0
    /\ UniqueFaissIdIndex =>
          \A i \in 1..Len(cbatch[c]), j \in 1..Len(chunksColl) :
              cbatch[c][i].faiss_id # chunksColl[j].faiss_id

\* index_chunks line 104: await self.db.insert_chunks(chunks)
InsertChunks(c) ==
    /\ cpc[c] = "appended"
    /\ CanInsert(c)
    /\ chunksColl' = chunksColl \o cbatch[c]
    /\ cpc' = [cpc EXCEPT ![c] = "persisted"]
    /\ UNCHANGED <<crawlVars, articles, indexFile, cindex, cbatch, cbase, ccall,
                   overlapped, crashed>>

\* index_chunks line 104 raising (StoreFailure): the exception propagates,
\* line 107 is not reached. insert_many is ordered and not transactional:
\* the n documents before the one that failed stay inserted, and a batch
\* whose first document is in the collection already inserts nothing
InsertChunksFail(c, n) ==
    /\ cpc[c] = "appended"
    /\ n <= Len(cbatch[c])
    /\ ccall[c].stored > 0 => n = 0
    /\ UniqueFaissIdIndex =>
          \A i \in 1..n, j \in 1..Len(chunksColl) :
              cbatch[c][i].faiss_id # chunksColl[j].faiss_id
    /\ chunksColl' = chunksColl \o SubSeq(cbatch[c], 1, n)
    /\ ccall' = [ccall EXCEPT ![c].stored = IF n > 0 THEN n ELSE @]
    /\ cpc' = [cpc EXCEPT ![c] = "failed"]
    /\ UNCHANGED <<crawlVars, articles, indexFile, cindex, cbatch, cbase,
                   overlapped, crashed>>

\* the caller hands the chunks of the failed call to index_chunks again: to
\* the same processor, or (reload) to a processor built anew from the file
RetryIndexChunks(c, reload) ==
    /\ cpc[c] = "failed"
    /\ LET index == IF reload THEN load_or_create_index ELSE cindex[c]
       IN  /\ Len(index) + Len(cbatch[c]) <= InitSize + MaxNew
           /\ cindex' = [cindex EXCEPT ![c] = index]
    /\ cpc' = [cpc EXCEPT ![c] = "chunked"]
    /\ ccall' = [ccall EXCEPT ![c].retry = TRUE, ![c].encoded = 0]
    /\ overlapped' = (overlapped
                        \/ (reload /\ \E o \in Coordinators \ {c} : Live(o)))
    /\ UNCHANGED <<crawlVars, articles, chunksColl, indexFile, cbatch, cbase,
                   crashed>>

\* index_chunks line 107: faiss.write_index(self.index, INDEX_FILE)
WriteIndex(c) ==
    /\ cpc[c] = "persisted"
    /\ indexFile' = [exists |-> TRUE, vecs |-> cindex[c]]
    /\ cpc' = [cpc EXCEPT ![c] = "indexed"]
    /\ UNCHANGED <<crawlVars, articles, chunksColl, cindex, cbatch, cbase, ccall,
                   overlapped, crashed>>

\* the processor object goes away after its call returned or raised
\* (process_and_index_articles builds a new one per call)
Discard(c) ==
    /\ CanStartCall(c)
    /\ cpc' = [cpc EXCEPT ![c] = "none"]
    /\ cindex' = [cindex EXCEPT ![c] = <<>>]
    /\ cbatch' = [cbatch EXCEPT ![c] = <<>>]
    /\ cbase' = [cbase EXCEPT ![c] = 0]
    /\ ccall' = [ccall EXCEPT ![c] = NoCall]
    /\ UNCHANGED <<crawlVars, articles, chunksColl, indexFile, overlapped, crashed>>

\* the process dies in the middle of process_and_index_articles
Crash(c) ==
    /\ cpc[c] \in {"chunked", "appended", "persisted"}
    /\ cpc' = [cpc EXCEPT ![c] = "none"]
    /\ cindex' = [cindex EXCEPT ![c] = <<>>]
    /\ cbatch' = [cbatch EXCEPT ![c] = <<>>]
    /\ cbase' = [cbase EXCEPT ![c] = 0]
    /\ ccall' = [ccall EXCEPT ![c] = NoCall]
    /\ crashed' = TRUE
    /\ UNCHANGED <<crawlVars, articles, chunksColl, indexFile, overlapped>>

NextIndex ==
    \/ \E c \in Coordinators : NewProcessor(c)
    \/ \E c \in Coordinators, req \in Requests : ProcessArticles(c, req)
    \/ \E c \in Coordinators : IndexChunksEmpty(c)
    \/ \E c \in Coordinators : IndexAdd(c)
    \/ \E c \in Coordinators : InsertChunks(c)
    \/ \E c \in Coordinators : InsertChunksFail(c, 0)
    \/ \E c \in Coordinators : WriteIndex(c)
    \/ \E c \in Coordinators : Discard(c)
    \/ \E c \in Coordinators : Crash(c)

SpecIndex == InitIndex /\ [][NextIndex]_vars

\* ------------------------------------------------- retry after failure
\* one processor at a time whose caller calls index_chunks again when the
\* call raised, and whose failed insert_many may have inserted the head of
\* the batch
Writers == {1}

NextRetry ==
    \/ \E c \in Writers : NewProcessor(c)
    \/ \E c \in Writers, req \in Requests : ProcessArticles(c, req)
    \/ \E c \in Writers : IndexChunksEmpty(c)
    \/ \E c \in Writers : IndexAdd(c)
    \/ \E c \in Writers : InsertChunks(c)
    \/ \E c \in Writers, n \in 0..MaxPartial : InsertChunksFail(c, n)
    \/ \E c \in Writers, reload \in BOOLEAN : RetryIndexChunks(c, reload)
    \/ \E c \in Writers : WriteIndex(c)
    \/ \E c \in Writers : Discard(c)
    \/ \E c \in Writers : Crash(c)

SpecRetry == InitIndex /\ [][NextRetry]_vars

\* ------------------------------------------------- one process_articles
\* stores of more documents than one batch: n unprocessed documents, the
\* first with a body of 2 chunks and the others with an empty body
BulkStore(n) ==
    {[id |-> d, url |-> d, processed |-> FALSE,
      words |-> IF d = 1 THEN 300 ELSE 0] : d \in 1..n}

\* the documents 1..NumDocs, each absent, unprocessed or processed
SmallStores ==
    {{[id |-> d, url |-> d, processed |-> st[d] = "processed",
       words |-> DocWords(d)] : d \in {x \in DocIds : st[x] # "absent"}} :
        st \in [DocIds -> {"absent", "unprocessed", "processed"}]}

BulkStores == {BulkStore(n) : n \in {BATCH_SIZE - 1, BATCH_SIZE, BATCH_SIZE + 1}}

\* the article_ids argument a processor is about to be called with
Arguments(c) == [given |-> ccall[c].given, ids |-> ccall[c].ids]

InitProcess ==
    /\ CrawlIdle
    /\ articles \in SmallStores \cup BulkStores
    /\ chunksColl = <<>>
    /\ indexFile = [exists |-> FALSE, vecs |-> <<>>]
    /\ cpc = [c \in Coordinators |-> IF c = 1 THEN "idle" ELSE "none"]
    /\ cindex = [c \in Coordinators |-> <<>>]
    /\ cbatch = [c \in Coordinators |-> <<>>]
    /\ cbase = [c \in Coordinators |-> 0]
    /\ \E req \in Requests :
          ccall = [c \in Coordinators |->
                     IF c = 1 THEN [NoCall EXCEPT !.given = req.given,
                                                  !.ids = req.ids]
                     ELSE NoCall]
    /\ overlapped = FALSE
    /\ crashed = FALSE

NextProcess == \E c \in Coordinators : ProcessArticles(c, Arguments(c))

SpecProcess == InitProcess /\ [][NextProcess]_vars

\* ------------------------------------- processing until nothing is left
\* n unprocessed documents, the first and the last with a body of 2 chunks
\* and the others with an empty body
DrainStore(n) ==
    {[id |-> d, url |-> d, processed |-> FALSE,
      words |-> IF d = 1 \/ d = n THEN 300 ELSE 0] : d \in 1..n}

DrainSizes == (0..(NumDocs + 1))
                 \cup {BATCH_SIZE - 1, BATCH_SIZE, BATCH_SIZE + 1}

\* process_articles(None)
NoIds == [given |-> FALSE, ids |-> <<>>]

InitDrain ==
    /\ CrawlIdle
    /\ \E n \in DrainSizes, t \in InitSizes :
        /\ articles = DrainStore(n) \cup (IF t = 0 THEN {} ELSE {LegacyArticle})
        /\ chunksColl = (IF t = 0 THEN <<>> ELSE LegacyChunks)
        /\ indexFile = (IF t = 0
                        THEN [exists |-> FALSE, vecs |-> <<>>]
                        ELSE [exists |-> TRUE,
                              vecs |-> [i \in 1..Len(LegacyChunks) |->
                                           Encode(LegacyChunks[i].text)]])
    /\ cpc = [c \in Coordinators |-> "none"]
    /\ cindex = [c \in Coordinators |-> <<>>]
    /\ cbatch = [c \in Coordinators |-> <<>>]
    /\ cbase = [c \in Coordinators |-> 0]
    /\ ccall = [c \in Coordinators |-> NoCall]
    /\ overlapped = FALSE
    /\ crashed = FALSE

\* process_and_index_articles(None) called again and again, one call at a
\* time, each call running to its end and nothing failing
NextDrain ==
    \/ \E c \in Writers : NewProcessor(c)
    \/ \E c \in Writers : ProcessArticles(c, NoIds)
    \/ \E c \in Writers : IndexChunksEmpty(c)
    \/ \E c \in Writers : IndexAdd(c)
    \/ \E c \in Writers : InsertChunks(c)
    \/ \E c \in Writers : WriteIndex(c)
    \/ \E c \in Writers : cpc[c] = "indexed" /\ Discard(c)

\* a step of index_chunks
IndexStep ==
    \E c \in Writers :
        IndexChunksEmpty(c) \/ IndexAdd(c) \/ InsertChunks(c) \/ WriteIndex(c)

\* the caller keeps calling process_articles(None), and an index_chunks call
\* that was started runs on
SpecDrain ==
    /\ InitDrain
    /\ [][NextDrain]_vars
    /\ []<><<\E c \in Writers : ProcessArticles(c, NoIds)>>_vars
    /\ WF_vars(IndexStep)

\* ------------------------------------------------------------ chunking
InitChunk ==
    /\ articles = {}
    /\ chunksColl = <<>>
    /\ indexFile = [exists |-> FALSE, vecs |-> <<>>]
    /\ cpc = [c \in Coordinators |-> "none"]
    /\ cindex = [c \in Coordinators |-> <<>>]
    /\ cbatch = [c \in Coordinators |-> <<>>]
    /\ cbase = [c \in Coordinators |-> 0]
    /\ ccall = [c \in Coordinators |-> NoCall]
    /\ overlapped = FALSE
    /\ crashed = FALSE
    /\ ScrapersIdle
    /\ srch = SearchIdle
    /\ \E in \in ChunkerInputs :
          /\ in.o < in.w
          /\ chk = [pc |-> "ready", n |-> in.n, w |-> in.w, o |-> in.o,
                    chunks |-> <<>>]

\* _create_chunks(text) on a text of chk.n words
CreateChunks ==
    /\ chk.pc = "ready"
    /\ chk' = [chk EXCEPT !.pc = "done",
                          !.chunks = ChunkLoop(0, chk.n, chk.w, chk.o, <<>>)]
    /\ UNCHANGED <<articles, indexVars, site, nextOid, scr, hist, run, srch>>

NextChunk == CreateChunks

SpecChunk == InitChunk /\ [][NextChunk]_vars


\* ----------------------------------------------------------- retrieval
\* numpy.float32 values >= 0: [m, e] stands for m * 2^(e - 23) with
\* 2^23 <= m < 2^24 (24 significant bits), and m = 0 for zero.  index.search
\* returns float32 distances, and `1 / (1 + distance)` on a numpy.float32
\* is carried out in float32.
F32Bits == 24
F32Zero == [m |-> 0, e |-> 0]
F32One == [m |-> 2^23, e |-> 0]
F32Max == [m |-> 2^24 - 1, e |-> 127]       \* FLT_MAX, about 3.4e38

F32Less(a, b) ==
    /\ b.m # 0
    /\ \/ a.m = 0
       \/ a.e < b.e
       \/ (a.e = b.e /\ a.m < b.m)

F32Leq(a, b) == a = b \/ F32Less(a, b)

\* round-to-nearest-even of (q + r/den) for 0 <= r < den
RoundEven(q, r, den) ==
    IF 2 * r > den \/ (2 * r = den /\ q % 2 = 1) THEN q + 1 ELSE q

\* a significand that rounding carried up to 2^24 moves to the next exponent
Normal(m, e) == IF m = 2^F32Bits THEN [m |-> 2^(F32Bits - 1), e |-> e + 1]
                ELSE [m |-> m, e |-> e]

\* 1 + d in float32
F32AddOne(d) ==
    IF d.m = 0 THEN F32One
    ELSE IF d.e > F32Bits THEN d                  \* 1 is below half an ulp of d
    ELSE IF d.e = F32Bits                         \* 1 is half an ulp of d
         THEN Normal(RoundEven(d.m, 1, 2), d.e)
    ELSE IF d.e = F32Bits - 1                     \* 1 is one ulp of d
         THEN Normal(d.m + 1, d.e)
    ELSE IF d.e >= 0                              \* sum has up to 25 bits
         THEN LET n == d.m + 2^(F32Bits - 1 - d.e)
              IN  IF n < 2^F32Bits THEN [m |-> n, e |-> d.e]
                  ELSE Normal(RoundEven(n \div 2, n % 2, 2), d.e + 1)
    ELSE IF d.e < -(F32Bits + 1) THEN F32One      \* d is below half an ulp of 1
    ELSE LET den == 2^(-d.e)                      \* sum lies in [1, 2]
         IN  Normal(RoundEven(2^(F32Bits - 1) + d.m \div den, d.m % den, den), 0)

\* long division: the F32Bits quotient bits of (r * 2^F32Bits) / q, r < q
RECURSIVE DivBits(_, _, _, _)
DivBits(r, q, n, quot) ==
    IF n = 0 THEN [quot |-> quot, rem |-> r]
    ELSE IF 2 * r >= q THEN DivBits(2 * r - q, q, n - 1, 2 * quot + 1)
         ELSE DivBits(2 * r, q, n - 1, 2 * quot)

\* 1 / x in float32, for a normal x below 2^126 (the quotient is normal)
F32Recip(x) ==
    IF x.m = 2^(F32Bits - 1) THEN [m |-> x.m, e |-> -x.e]
    ELSE LET d == DivBits(2^(F32Bits - 1), x.m, F32Bits, 0)
         IN  Normal(RoundEven(d.quot, d.rem, x.m), -x.e - 1)

\* score = 1 / (1 + distance)
NoScore(distance) == distance
Score(distance) == F32Recip(F32AddOne(distance))

\* distances the score is computed for: zero, values around half an ulp of
\* 1, ordinary values, and values around 2^24 where 1 is half an ulp
Distances ==
    { F32Zero,
      [m |-> 2^23, e |-> -60], [m |-> 2^23, e |-> -25],
      [m |-> 2^23, e |-> -24], [m |-> 2^23 + 1, e |-> -24],
      [m |-> 3 * 2^22, e |-> -24], [m |-> 2^23, e |-> -23],
      [m |-> 2^23, e |-> -1], F32One, [m |-> 3 * 2^22, e |-> 0],
      [m |-> 3 * 2^22, e |-> 1], [m |-> 2^24 - 1, e |-> 23],
      [m |-> 2^23, e |-> 24], [m |-> 2^23 + 1, e |-> 24],
      [m |-> 2^23, e |-> 100] }

\* the two distances used where ties and order matter
TieDistances == {F32Zero, F32One}

Sources == {"usao", "latimes"}
ArticleA == [id |-> 1, url |-> 1, processed |-> TRUE, words |-> 300,
             source |-> "usao"]
ArticleB == [id |-> 2, url |-> 2, processed |-> TRUE, words |-> 300,
             source |-> "latimes"]

\* what the store holds for one vector of the index: no chunk at all, a
\* chunk of ArticleA, a chunk of ArticleB, or a chunk of a deleted article
Owners == {"nochunk", "A", "B", "gone"}
OwnerId(o) == IF o = "A" THEN ArticleA.id ELSE IF o = "B" THEN ArticleB.id
              ELSE MissingId

ChunkFor(v, o) == [article_id |-> OwnerId(o), chunk_index |-> v,
                   text |-> <<OwnerId(o), v>>, faiss_id |-> v]

RECURSIVE ChunkDocs(_, _)
ChunkDocs(owner, v) ==
    IF v >= Len(owner) THEN <<>>
    ELSE (IF owner[v + 1] = "nochunk" THEN <<>>
          ELSE <<ChunkFor(v, owner[v + 1])>>) \o ChunkDocs(owner, v + 1)

\* db.chunks.find_one({"faiss_id": faiss_id})
get_chunk_by_faiss_id(faiss_id) ==
    LET found == {j \in 1..Len(chunksColl) : chunksColl[j].faiss_id = faiss_id}
    IN  IF found = {} THEN <<>>
        ELSE <<chunksColl[CHOOSE j \in found : \A l \in found : j <= l]>>

\* index.search pads with (FLT_MAX, -1) when the index holds fewer than k
\* vectors
Placeholder == [distance |-> F32Max, faiss_id |-> -1]

\* D, I = self.index.search(query, k): the k nearest vectors by ascending
\* distance, in the order the index ranks them (order), padded to length k
IndexHits(dist, order, k) ==
    [j \in 1..k |-> IF j <= Len(order)
                    THEN [distance |-> dist[order[j] + 1], faiss_id |-> order[j]]
                    ELSE Placeholder]

\* the orders in which an index may rank its vectors for a query: ascending
\* distance, equal distances in any order
Rankings(dist) ==
    {o \in [1..Len(dist) -> 0..(Len(dist) - 1)] :
        /\ \A a, b \in 1..Len(dist) : a # b => o[a] # o[b]
        /\ \A a, b \in 1..Len(dist) :
              a < b => F32Leq(dist[o[a] + 1], dist[o[b] + 1])}

\* the sources argument: {} stands for None and for the empty list
Filters == {{}, {"usao"}, {"latimes"}}

\* rank = i + 1 with i the enumerate() index over the k hits
Rank(i) == i

\* `if sources and article.source not in sources: continue`
ExcludedNever(sources, source) == FALSE
Excluded(sources, source) == sources # {} /\ source \notin sources

\* `if not chunk: continue` and `if not article: continue`
ResolvesAlways(chunk, article) == chunk # <<>>
Resolves(chunk, article) == chunk # <<>> /\ article # <<>>

InitSearch ==
    /\ cpc = [c \in Coordinators |-> "none"]
    /\ cindex = [c \in Coordinators |-> <<>>]
    /\ cbatch = [c \in Coordinators |-> <<>>]
    /\ cbase = [c \in Coordinators |-> 0]
    /\ ccall = [c \in Coordinators |-> NoCall]
    /\ overlapped = FALSE
    /\ crashed = FALSE
    /\ ScrapersIdle
    /\ chk = ChunkerIdle
    /\ articles = {ArticleA, ArticleB}
    /\ \/ \E n \in 0..MaxVecs :
            \E owner \in [1..n -> Owners], dist \in [1..n -> TieDistances] :
            \E order \in Rankings(dist), k \in 1..MaxK, sources \in Filters :
               /\ chunksColl = ChunkDocs(owner, 0)
               /\ indexFile = [exists |-> TRUE,
                               vecs |-> [v \in 1..n |-> Encode(<<v - 1>>)]]
               /\ srch = [SearchIdle EXCEPT !.pc = "new", !.k = k,
                              !.sources = sources, !.dist = dist,
                              !.order = order]
       \/ \E d1 \in Distances, d2 \in Distances :
            /\ F32Leq(d1, d2)
            /\ chunksColl = ChunkDocs(<<"A", "B">>, 0)
            /\ indexFile = [exists |-> TRUE,
                            vecs |-> [v \in 1..2 |-> Encode(<<v - 1>>)]]
            /\ srch = [SearchIdle EXCEPT !.pc = "new", !.k = 2,
                           !.dist = <<d1, d2>>, !.order = <<0, 1>>]
       \/ \E k \in 1..MaxK, sources \in Filters :
            /\ chunksColl = <<>>
            /\ indexFile = [exists |-> FALSE, vecs |-> <<>>]
            /\ srch = [SearchIdle EXCEPT !.pc = "new", !.k = k,
                           !.sources = sources]

\* DocumentRetriever.__init__ line 32 and load_index: faiss.read_index on a
\* path that holds no file raises, the exception is logged and raised again,
\* and no retriever object comes to exist
LoadIndex ==
    /\ srch.pc = "new"
    /\ srch' = [srch EXCEPT !.pc = IF indexFile.exists THEN "ready"
                                   ELSE "raised"]
    /\ UNCHANGED <<articles, indexVars, site, nextOid, scr, hist, run, chk>>

\* retriever.py line 50: D, I = self.index.search(np.array([q]), k)
IndexSearch ==
    /\ srch.pc = "ready"
    /\ srch' = [srch EXCEPT !.pc = "loop", !.i = 1,
                    !.hits = IndexHits(srch.dist, srch.order, srch.k)]
    /\ UNCHANGED <<articles, indexVars, site, nextOid, scr, hist, run, chk>>

\* one pass of the loop of lines 53-81: hit number i is looked up, dropped
\* or appended to results
Visit(hit, i, sources, results) ==
    LET chunk == get_chunk_by_faiss_id(hit.faiss_id)
        article == IF chunk = <<>> THEN <<>>
                   ELSE get_article(chunk[1].article_id)
        source == IF article = <<>> THEN "" ELSE article[1].source
    IN  IF ~Resolves(chunk, article) THEN results
        ELSE IF Excluded(sources, source) THEN results
        ELSE Append(results,
                    [text        |-> chunk[1].text,
                     article_url |-> IF article = <<>> THEN None
                                     ELSE article[1].url,
                     source      |-> source,
                     score       |-> Score(hit.distance),
                     rank        |-> Rank(i),
                     hit         |-> i])

SearchHit ==
    /\ srch.pc = "loop"
    /\ srch.i <= Len(srch.hits)
    /\ srch' = [srch EXCEPT
                   !.i = @ + 1,
                   !.results = Visit(srch.hits[srch.i], srch.i, srch.sources, @)]
    /\ UNCHANGED <<articles, indexVars, site, nextOid, scr, hist, run, chk>>

\* line 83: return results
SearchReturn ==
    /\ srch.pc = "loop"
    /\ srch.i > Len(srch.hits)
    /\ srch' = [srch EXCEPT !.pc = "done"]
    /\ UNCHANGED <<articles, indexVars, site, nextOid, scr, hist, run, chk>>

NextSearch == LoadIndex \/ IndexSearch \/ SearchHit \/ SearchReturn

SpecSearch == InitSearch /\ [][NextSearch]_vars


\* ------------------------------------------------------- crawl sessions
\* the pre-existing document of the crawled source (url 1)
StoredBefore == [id |-> 0, url |-> 1, processed |-> FALSE, words |-> 300]

CrawlStart ==
    /\ articles \in {{}, {StoredBefore}}
    /\ chunksColl = <<>>
    /\ indexFile = [exists |-> FALSE, vecs |-> <<>>]
    /\ cpc = [c \in Coordinators |-> "none"]
    /\ cindex = [c \in Coordinators |-> <<>>]
    /\ cbatch = [c \in Coordinators |-> <<>>]
    /\ cbase = [c \in Coordinators |-> 0]
    /\ ccall = [c \in Coordinators |-> NoCall]
    /\ overlapped = FALSE
    /\ crashed = FALSE
    /\ nextOid = 1
    /\ hist = [s \in Sessions |-> HistInit]
    /\ chk = ChunkerIdle
    /\ srch = SearchIdle

\* one crawl session over one of the given sources
OneSession(sites) ==
    /\ site \in sites
    /\ run = [concurrent |-> FALSE]
    /\ \E cap \in Caps, th \in Thresholds :
          scr = [s \in Sessions |->
                   IF s = 1 THEN ScraperInit("usao", cap, th)
                   ELSE [ScraperInit("usao", 0, th) EXCEPT !.pc = "Absent"]]

\* two crawl sessions of the same source (run_scrapers, concurrent)
SameSourceTwice ==
    /\ site \in SharedSites
    /\ run = [concurrent |-> TRUE]
    /\ \E caps \in [Sessions -> 0..1] :
          scr = [s \in Sessions |-> ScraperInit("usao", caps[s], 1)]

\* run_scrapers over both sources, in either order
BothSources ==
    /\ site \in SharedSites
    /\ run \in [concurrent : BOOLEAN]
    /\ \E cap \in 0..1, first \in Kinds :
          scr = [s \in Sessions |->
                   ScraperInit(IF s = 1 THEN first
                               ELSE CHOOSE k \in Kinds : k # first,
                               cap, 1)]

InitCrawl == CrawlStart /\ (OneSession(Sites) \/ SameSourceTwice \/ BothSources)

\* an exception left some session's scrape_all_articles: run_scrapers has no
\* handler, so it leaves run_scrapers too
RunAborted == \E o \in Sessions : scr[o].pc = "Raised"

Returned(s) == scr[s].pc \in {"Absent", "Stopped"}

\* scrape_all_articles is called: page = 0.  Sequential runs (lines 567-569)
\* start a scraper when the one before has returned; gather (lines 564-565)
\* starts them all
StartCrawl(s) ==
    /\ scr[s].pc = "Idle"
    /\ ~RunAborted
    /\ ~run.concurrent => \A o \in Sessions : o < s => Returned(o)
    /\ scr' = [scr EXCEPT ![s].pc = "LoopTop", ![s].page = 0]
    /\ UNCHANGED <<articles, indexVars, crawlFixed, nextOid, hist>>

\* asyncio.run tears the loop down after the exception: the tasks still
\* pending are cancelled at the await they are suspended on
Cancel(s) ==
    /\ run.concurrent
    /\ RunAborted
    /\ scr[s].pc \notin {"Absent", "Stopped", "Raised", "Cancelled"}
    /\ scr' = [scr EXCEPT ![s].pc = "Cancelled"]
    /\ UNCHANGED <<articles, indexVars, crawlFixed, nextOid, hist>>

\* a step of a session's own code
Running(s) == ~(run.concurrent /\ RunAborted)

\* lines 197-205 (USAO), 434-438 (LATimes): the stop checks at the top of
\* the page loop
LoopTop(s) ==
    /\ scr[s].pc = "LoopTop"
    /\ Running(s)
    /\ LET cause == IF CapReached(scr[s]) THEN "cap"
                    ELSE IF /\ scr[s].kind = "usao"
                            /\ scr[s].pages_without_new >= scr[s].max_pages_without_new
                         THEN "threshold"
                         ELSE "none"
       IN  /\ scr' = [scr EXCEPT ![s].pc = IF cause = "none" THEN "FetchPage"
                                           ELSE "Stopped",
                                 ![s].attempt = 0]
           /\ hist' = [hist EXCEPT ![s].stop = cause,
                                   ![s].requests = 0,
                                   ![s].backoffs = 0]
    /\ UNCHANGED <<articles, indexVars, crawlFixed, nextOid>>

\* the history of one HTTP attempt of fetch_page (lines 92-98)
Attempted(h, resp) ==
    [h EXCEPT !.requests = Min(@ + 1, max_retries + 1),
              !.waited = 0,
              !.clean = @ /\ resp = "200"]

\* fetch_page lines 99-103: an exception before the last attempt is
\* followed by the sleep
RetriesForever(attempt, resp) == resp = "exception"
Retries(attempt, resp) == resp = "exception" /\ ~LastAttempt(attempt)

\* fetch_page line 103 and the loop header of line 92: sleep, then the next
\* attempt if range(max_retries) has one, else `return None` (line 104)
RetrySleep(s) ==
    /\ scr[s].pc \in {"BackoffPage", "BackoffArticle"}
    /\ Running(s)
    /\ LET x == scr[s]
           more == RetryAttempt(x.attempt) < max_retries
           h == [hist[s] EXCEPT !.backoffs = Min(@ + 1, max_retries + 1),
                                !.waited = Min(@ + RETRY_SLEEP, SCRAPE_DELAY)]
       IN  IF more
           THEN /\ scr' = [scr EXCEPT
                            ![s].attempt = RetryAttempt(x.attempt),
                            ![s].pc = IF x.pc = "BackoffPage" THEN "FetchPage"
                                      ELSE "FetchArticle"]
                /\ hist' = [hist EXCEPT ![s] = h]
           ELSE IF x.pc = "BackoffPage"
           THEN /\ scr' = [scr EXCEPT ![s].pc = "Stopped"]
                /\ hist' = [hist EXCEPT ![s] = [h EXCEPT !.stop = "fetch"]]
           ELSE /\ scr' = [scr EXCEPT ![s] = NextLink(@)]
                /\ hist' = [hist EXCEPT ![s] =
                            [h EXCEPT !.checkedUrl = 0,
                                      !.absentAtCheck = FALSE,
                                      !.requests = 0,
                                      !.backoffs = 0,
                                      !.lastScrape = "unfetched"]]
    /\ UNCHANGED <<articles, indexVars, crawlFixed, nextOid>>

\* lines 208-218 (USAO), 439-449 (LATimes): one HTTP attempt for the listing
\* page; on a body, parse its links
ListingAttempt(s, resp) ==
    /\ scr[s].pc = "FetchPage"
    /\ Running(s)
    /\ LET x == scr[s]
           h == [Attempted(hist[s], resp) EXCEPT
                    !.pageFetches = IF hist[s].requests = 0 THEN @ + 1 ELSE @,
                    !.savedAtPage = hist[s].saved]
           links == parse_article_links(x.kind, x.page)
       IN  IF Retries(x.attempt, resp)
           THEN /\ scr' = [scr EXCEPT ![s].pc = "BackoffPage"]
                /\ hist' = [hist EXCEPT ![s] = h]
           ELSE IF resp # "200"
           THEN /\ scr' = [scr EXCEPT ![s].pc = "Stopped"]
                /\ hist' = [hist EXCEPT ![s] = [h EXCEPT !.stop = "fetch"]]
           ELSE /\ scr' = [scr EXCEPT ![s] =
                            IF NoLinks(links)
                            THEN [@ EXCEPT !.pc = "Stopped"]
                            ELSE [@ EXCEPT !.pc = "LinkLoop",
                                           !.article_links = links,
                                           !.link = 1,
                                           !.new_on_page = 0]]
                /\ hist' = [hist EXCEPT ![s] =
                            [h EXCEPT !.requests = 0,
                                      !.backoffs = 0,
                                      !.stop = IF NoLinks(links) THEN "nolinks" ELSE @,
                                      !.zeroRun = IF links = <<>> THEN @ + 1 ELSE 0,
                                      !.zeroSavePage = @ \/ links = <<>>]]
    /\ UNCHANGED <<articles, indexVars, crawlFixed, nextOid>>

\* the existence check raised (the store cannot be reached): nothing in
\* scrape_all_articles or scrape_article catches it
Raise(x) == [x EXCEPT !.pc = "Raised"]

\* lines 220-227 (USAO), 450-456 (LATimes): next link, cap check, existence
\* pre-check
LinkLoop(s, dbok) ==
    /\ scr[s].pc = "LinkLoop"
    /\ Running(s)
    /\ IF scr[s].link > Len(scr[s].article_links) \/ CapReached(scr[s])
       THEN /\ scr' = [scr EXCEPT ![s].pc = "PageEnd"]
            /\ hist' = [hist EXCEPT ![s].lastScrape = "none",
                                    ![s].lastInsert = "none",
                                    ![s].insertUrl = 0,
                                    ![s].urlWasStored = FALSE,
                                    ![s].inserted = 0]
       ELSE /\ scr' = [scr EXCEPT ![s] =
                         IF ~dbok THEN Raise(@)
                         ELSE IF ArticleExists(CurUrl(scr[s]))
                              THEN NextLink(@)
                              ELSE [@ EXCEPT !.pc = "Scrape"]]
            /\ hist' = [hist EXCEPT
                          ![s].checkedUrl = CurUrl(scr[s]),
                          ![s].absentAtCheck = dbok /\ CurUrl(scr[s]) \notin StoredUrls,
                          ![s].clean = @ /\ dbok,
                          ![s].lastScrape = "none",
                          ![s].lastInsert = "none",
                          ![s].insertUrl = 0,
                          ![s].urlWasStored = FALSE,
                          ![s].inserted = 0]
    /\ UNCHANGED <<articles, indexVars, crawlFixed, nextOid>>

\* scrape_article: lines 294-296 (USAO), the existence check before the
\* fetch; lines 484-485 (LATimes), `return None`
ScrapeCheck(s, dbok) ==
    /\ scr[s].pc = "Scrape"
    /\ Running(s)
    /\ scr' = [scr EXCEPT ![s] =
                 IF @.kind = "latimes" THEN NextLink(@)
                 ELSE IF ~dbok THEN Raise(@)
                 ELSE IF ArticleExists(CurUrl(scr[s]))
                      THEN NextLink(@)
                      ELSE [@ EXCEPT !.pc = "FetchArticle", !.attempt = 0]]
    /\ hist' = [hist EXCEPT
                  ![s].checkedUrl = CurUrl(scr[s]),
                  ![s].absentAtCheck = dbok /\ CurUrl(scr[s]) \notin StoredUrls,
                  ![s].clean = @ /\ (dbok \/ scr[s].kind = "latimes"),
                  ![s].requests = 0,
                  ![s].backoffs = 0]
    /\ UNCHANGED <<articles, indexVars, crawlFixed, nextOid>>

\* what the parser makes of a fetched article page (lines 302-422): an
\* article dict, or None when no content is found or the parsing raises
Parses == {"article", "nocontent", "error"}

\* scrape_article returns the article dict: a body was fetched (line 299)
\* and the parser found content (lines 398-403) without raising (line 420)
ScrapedAnyBody(resp, parsed) == resp = "200"
Scraped(resp, parsed) == resp = "200" /\ parsed = "article"

\* scrape_article lines 298-422: one HTTP attempt for the article page; on a
\* body, parse it
ArticleAttempt(s, resp, parsed) ==
    /\ scr[s].pc = "FetchArticle"
    /\ Running(s)
    /\ LET x == scr[s]
           h == [Attempted(hist[s], resp) EXCEPT
                    !.clean = @ /\ parsed = "article"]
           done == [h EXCEPT !.checkedUrl = 0,
                             !.absentAtCheck = FALSE,
                             !.requests = 0,
                             !.backoffs = 0,
                             !.lastScrape = IF resp # "200" THEN "unfetched"
                                            ELSE IF parsed = "article" THEN "article"
                                            ELSE "unparsed"]
       IN  IF Retries(x.attempt, resp)
           THEN /\ scr' = [scr EXCEPT ![s].pc = "BackoffArticle"]
                /\ hist' = [hist EXCEPT ![s] = h]
           ELSE /\ scr' = [scr EXCEPT ![s] =
                            IF Scraped(resp, parsed)
                            THEN [@ EXCEPT !.pc = "Save"]
                            ELSE NextLink(@)]
                /\ hist' = [hist EXCEPT ![s] = done]
    /\ UNCHANGED <<articles, indexVars, crawlFixed, nextOid>>

\* _save_article lines 51-67: cap check, existence check, Article(...); an
\* exception of the existence check is caught at line 72
SaveCheck(s, dbok) ==
    /\ scr[s].pc = "Save"
    /\ Running(s)
    /\ IF CapReached(scr[s]) \/ ~dbok \/ ArticleExists(CurUrl(scr[s]))
       THEN /\ scr' = [scr EXCEPT ![s] = NextLink(@)]
            /\ nextOid' = nextOid
       ELSE /\ scr' = [scr EXCEPT ![s].pc = "Upsert",
                                  ![s].article = NewArticle(CurUrl(scr[s]))]
            /\ nextOid' = nextOid + 1
    /\ hist' = [hist EXCEPT ![s].clean = @ /\ dbok, ![s].lastScrape = "none"]
    /\ UNCHANGED <<articles, indexVars, crawlFixed>>

\* insert_article, the query phase of update_one(..., upsert=True)
UpsertMatch(s) ==
    /\ scr[s].pc = "Upsert"
    /\ Running(s)
    /\ scr' = [scr EXCEPT
                 ![s].pc = "UpsertWrite",
                 ![s].matched = {a.id : a \in {x \in articles :
                                                 x.url = scr[s].article.url}}]
    /\ hist' = [hist EXCEPT ![s].lastInsert = "none",
                            ![s].insertUrl = scr[s].article.url,
                            ![s].urlWasStored = scr[s].article.url \in StoredUrls]
    /\ UNCHANGED <<articles, indexVars, crawlFixed, nextOid>>

\* insert_article, the write phase of update_one; _save_article lines 68-74
\* and the caller's lines 235-239
UpsertWrite(s, ok) ==
    /\ scr[s].pc = "UpsertWrite"
    /\ Running(s)
    /\ LET r == IF ok THEN UpdateOneUpsert(articles, scr[s].article, scr[s].matched)
                ELSE [arts |-> articles, result |-> "unavailable"]
           saved == r.result \in {"upserted", "modified"}
       IN  /\ articles' = r.arts
           /\ scr' = [scr EXCEPT ![s] =
                        IF saved
                        THEN NextLink([@ EXCEPT !.new_articles_found = @ + 1,
                                                !.new_on_page = @ + 1])
                        ELSE NextLink(@)]
           /\ hist' = [hist EXCEPT
                         ![s].lastInsert = r.result,
                         ![s].inserted = Cardinality(r.arts) - Cardinality(articles),
                         ![s].saved = IF saved THEN @ + 1 ELSE @,
                         ![s].savedIds = IF saved THEN @ \cup {scr[s].article.id}
                                         ELSE @,
                         ![s].clean = @ /\ saved]
    /\ UNCHANGED <<indexVars, crawlFixed, nextOid>>

\* lines 471-473: LATimesScraper leaves the loop after a page without a
\* new save
StopsAfterPage(x) == x.kind = "latimes" /\ x.new_on_page = 0

\* lines 241-247 (USAO): update the empty-page counter; lines 471-476
\* (LATimes): stop after a page without a new save; then the next page after
\* asyncio.sleep(SCRAPE_DELAY)
PageEnd(s) ==
    /\ scr[s].pc = "PageEnd"
    /\ Running(s)
    /\ scr' = [scr EXCEPT ![s] =
                 IF StopsAfterPage(@)
                 THEN [@ EXCEPT !.pc = "Stopped"]
                 ELSE [@ EXCEPT
                         !.pc = "LoopTop",
                         !.pages_without_new =
                             IF scr[s].kind = "usao"
                             THEN PagesWithoutNew(scr[s].new_on_page,
                                                  scr[s].pages_without_new)
                             ELSE @,
                         !.page = @ + 1]]
    /\ hist' = [hist EXCEPT
                  ![s].emptyRun =
                      IF hist[s].saved > hist[s].savedAtPage THEN 0 ELSE @ + 1,
                  ![s].zeroSavePage = @ \/ scr[s].new_on_page = 0,
                  ![s].stop = IF StopsAfterPage(scr[s]) THEN "nonew" ELSE @,
                  ![s].waited = IF StopsAfterPage(scr[s]) THEN @ ELSE SCRAPE_DELAY]
    /\ UNCHANGED <<articles, indexVars, crawlFixed, nextOid>>

NextCrawl ==
    \/ \E s \in Sessions : StartCrawl(s)
    \/ \E s \in Sessions : Cancel(s)
    \/ \E s \in Sessions : LoopTop(s)
    \/ \E s \in Sessions, resp \in Responses : ListingAttempt(s, resp)
    \/ \E s \in Sessions : RetrySleep(s)
    \/ \E s \in Sessions, dbok \in BOOLEAN : LinkLoop(s, dbok)
    \/ \E s \in Sessions, dbok \in BOOLEAN : ScrapeCheck(s, dbok)
    \/ \E s \in Sessions, resp \in Responses, parsed \in Parses :
          ArticleAttempt(s, resp, parsed)
    \/ \E s \in Sessions, dbok \in BOOLEAN : SaveCheck(s, dbok)
    \/ \E s \in Sessions : UpsertMatch(s)
    \/ \E s \in Sessions, ok \in BOOLEAN : UpsertWrite(s, ok)
    \/ \E s \in Sessions : PageEnd(s)

SpecCrawl == InitCrawl /\ [][NextCrawl]_vars

\* the steps of session s
SessionStep(s) ==
    \/ StartCrawl(s)
    \/ Cancel(s)
    \/ LoopTop(s)
    \/ \E resp \in Responses : ListingAttempt(s, resp)
    \/ RetrySleep(s)
    \/ \E dbok \in BOOLEAN : LinkLoop(s, dbok)
    \/ \E dbok \in BOOLEAN : ScrapeCheck(s, dbok)
    \/ \E resp \in Responses, parsed \in Parses : ArticleAttempt(s, resp, parsed)
    \/ \E dbok \in BOOLEAN : SaveCheck(s, dbok)
    \/ UpsertMatch(s)
    \/ UpsertWrite(s, TRUE) \/ UpsertWrite(s, FALSE)
    \/ PageEnd(s)

\* the event loop keeps running every task that can go on; every awaited
\* request, sleep and store call comes back (aiohttp's default timeout ends
\* a request that gets no answer)
\* a source whose listing never ends: every page lists the same two links
EndlessSites == { [pages |-> <<>>, tail |-> <<1, 2>>] }

\* The runs checked for termination: one session over the source whose
\* listing never ends, and the runs over both sources.
InitCrawlFair == CrawlStart /\ (OneSession(EndlessSites) \/ BothSources)

SpecCrawlFair ==
    /\ InitCrawlFair
    /\ [][NextCrawl]_vars
    /\ \A s \in Sessions : WF_vars(SessionStep(s))

\* ------------------------------------------------------- scrape_source
\* every document of the crawled site belongs to the USAO source
\* (LATimesScraper finds no links and saves nothing)
ArticleSource(a) == "usao"

\* the first n elements of S in descending order
RECURSIVE Newest(_, _)
Newest(S, n) ==
    IF n = 0 \/ S = {} THEN {}
    ELSE LET top == CHOOSE x \in S : \A y \in S : y <= x
         IN  {top} \cup Newest(S \ {top}, n - 1)

\* db.articles.find({"source": source}, sort=[("date_ingested", -1)],
\* limit=limit): date_ingested is set when the Article object is built, as
\* its id is, so the latest ingested are those with the highest ids
get_recent_articles(source, limit) ==
    Newest({a.id : a \in {x \in articles : ArticleSource(x) = source}}, limit)

\* what scrape_all_articles returns: self.new_articles_found (USAO), the
\* local new_articles (LATimes)
NewCount(s) == IF scr[s].kind = "usao" THEN scr[s].new_articles_found
               ELSE hist[s].saved

\* scrape_source lines 527-533, after scrape_all_articles has returned
ScrapeSourceReturn(s) ==
    /\ scr[s].pc = "Stopped"
    /\ scr' = [scr EXCEPT ![s].pc = "Reported"]
    /\ hist' = [hist EXCEPT ![s].returned =
                   IF NewCount(s) = 0 THEN {}
                   ELSE get_recent_articles(scr[s].kind, NewCount(s))]
    /\ UNCHANGED <<articles, indexVars, crawlFixed, nextOid>>

\* two scrape_source calls for the same source at the same time
InitSource == CrawlStart /\ SameSourceTwice

NextSource == NextCrawl \/ \E s \in Sessions : ScrapeSourceReturn(s)

SpecSource == InitSource /\ [][NextSource]_vars

\* --------------------------------------- a scraper object called again
\* scrape_all_articles is called on a scraper whose earlier call returned:
\* page and the loop's locals start anew, while new_articles_found and
\* pages_without_new are fields set in __init__ only
ScrapeAgain(s) ==
    /\ scr[s].pc = "Stopped"
    /\ scr' = [scr EXCEPT ![s].pc = "LoopTop", ![s].page = 0,
                          ![s].article_links = <<>>, ![s].link = 1,
                          ![s].new_on_page = 0, ![s].attempt = 0,
                          ![s].article = NoArticle, ![s].matched = {}]
    /\ hist' = [hist EXCEPT ![s] = HistInit]
    /\ UNCHANGED <<articles, indexVars, crawlFixed, nextOid>>

InitRecall == CrawlStart /\ (OneSession(EndlessSites) \/ BothSources)

NextRecall == NextCrawl \/ \E s \in Sessions : ScrapeAgain(s)

SpecRecall == InitRecall /\ [][NextRecall]_vars

\* ------------------------------------------- crawling while processing
\* the source crawled while documents are processed: one listing page that
\* links the article at url 1
IngestSites == { [pages |-> << <<1>> >>, tail |-> <<>>] }

\* two crawl sessions of that source and one processor at a time, all
\* working on the same store
InitIngest ==
    /\ CrawlStart
    /\ site \in IngestSites
    /\ run = [concurrent |-> TRUE]
    /\ scr = [s \in Sessions |-> ScraperInit("usao", 0, 1)]

NextIngest ==
    \/ NextCrawl
    \/ \E c \in Writers : NewProcessor(c)
    \/ \E c \in Writers, req \in Requests : ProcessArticles(c, req)
    \/ \E c \in Writers : IndexChunksEmpty(c)
    \/ \E c \in Writers : IndexAdd(c)
    \/ \E c \in Writers : InsertChunks(c)
    \/ \E c \in Writers : InsertChunksFail(c, 0)
    \/ \E c \in Writers : WriteIndex(c)
    \/ \E c \in Writers : Discard(c)

SpecIngest == InitIngest /\ [][NextIngest]_vars

\* ------------------------------------------------ properties (indexing)
Quiescent == \A c \in Coordinators : cpc[c] \in {"none", "idle", "indexed", "failed"}

UniqueFaissIds ==
    \A i, j \in 1..Len(chunksColl) :
        i # j => chunksColl[i].faiss_id # chunksColl[j].faiss_id

HasIndexed(c) == cpc[c] \in {"appended", "persisted", "indexed"} /\ cbatch[c] # <<>>

\* C1: after index_chunks ran on a non-empty batch of m chunks against an
\* index of size t, chunk i of the batch carries id t+i, its vector sits at
\* that position, and the index holds t+m vectors (10 + 5 chunks: ids
\* 10..14, size 15).
C1_IdAlignment ==
    \A c \in Coordinators :
        HasIndexed(c) =>
            LET t == cbase[c]
                m == Len(cbatch[c])
            IN  /\ \A i \in 1..m :
                    /\ cbatch[c][i].faiss_id = t + (i - 1)
                    /\ cindex[c][t + i] = Encode(cbatch[c][i].text)
                /\ Len(cindex[c]) = t + m
                /\ (t = 10 /\ m = 5) =>
                      /\ [i \in 1..m |-> cbatch[c][i].faiss_id] = <<10, 11, 12, 13, 14>>
                      /\ Len(cindex[c]) = 15

C1_Witness ==
    \E c \in Coordinators :
        cpc[c] = "indexed" /\ cbase[c] = 10 /\ Len(cbatch[c]) = 5

\* C2: with one processor at a time (failed persists and crashes included)
\* no two persisted chunks share a vector id, and the id a chunk is given is
\* the position at which its own vector was appended to the index.
C2_UniqueAlignedIds ==
    ~overlapped =>
        /\ UniqueFaissIds
        /\ \A c \in Coordinators :
              HasIndexed(c) =>
                  \A i \in 1..Len(cbatch[c]) :
                      cindex[c][cbatch[c][i].faiss_id + 1] = Encode(cbatch[c][i].text)

\* C3: (document_id, ordinal) is unique among the persisted chunks.
C3_UniqueOrdinals ==
    \A i, j \in 1..Len(chunksColl) :
        i # j => <<chunksColl[i].article_id, chunksColl[i].chunk_index>>
                 # <<chunksColl[j].article_id, chunksColl[j].chunk_index>>

\* C4: whenever no processing or indexing call is in progress, a processed
\* document has its complete chunk set persisted (each chunk with a vector
\* id) and an unprocessed document has no persisted chunk.
C4_WhollyProcessed ==
    Quiescent =>
        \A a \in articles :
            LET mine == {i \in 1..Len(chunksColl) : chunksColl[i].article_id = a.id}
            IN  IF a.processed
                THEN \A k \in 0..(Len(create_chunks(a.words)) - 1) :
                        \E i \in mine : /\ chunksColl[i].chunk_index = k
                                         /\ chunksColl[i].faiss_id # None
                ELSE mine = {}

\* C7: two processors that started index_chunks from the same index size and
\* both persisted a non-empty batch leave two persisted chunks with the same
\* vector id; with one processor at a time and no crash all ids are distinct.
C7_CollidingIds ==
    /\ (~overlapped /\ ~crashed) => UniqueFaissIds
    /\ \A c1, c2 \in Coordinators :
          ( /\ c1 # c2
            /\ cpc[c1] \in {"persisted", "indexed"} /\ cbatch[c1] # <<>>
            /\ cpc[c2] \in {"persisted", "indexed"} /\ cbatch[c2] # <<>>
            /\ cbase[c1] = cbase[c2] )
          => ~UniqueFaissIds

\* ------------------------------------------------- properties (crawling)
DocsWithUrl(u) == {a \in articles : a.url = u}

\* C5: an insert_article of a document whose URL is already stored succeeds
\* as an update: it adds no document and leaves exactly one with that URL.
C5_UpsertSucceeds ==
    \A s \in Sessions :
        (hist[s].lastInsert \notin {"none", "unavailable"} /\ hist[s].urlWasStored)
        => /\ hist[s].lastInsert = "modified"
           /\ hist[s].inserted = 0
           /\ Cardinality(DocsWithUrl(hist[s].insertUrl)) = 1

\* C6: under every interleaving of two crawl sessions the store holds at
\* most one document per URL.
C6_OneDocumentPerUrl ==
    \A u \in StoredUrls : Cardinality(DocsWithUrl(u)) <= 1

FetchingPcs == {"FetchPage", "BackoffPage", "Scrape", "FetchArticle",
                "BackoffArticle", "Save", "Upsert", "UpsertWrite"}

\* C8: a session with cap m >= 1 never has more than m saved documents, and
\* once m are saved it is in no state that fetches a page or an article:
\* only the loop exits remain before Stopped.
C8_CapRespected ==
    \A s \in Sessions :
        scr[s].max_articles >= 1 =>
            /\ hist[s].saved <= scr[s].max_articles
            /\ hist[s].saved >= scr[s].max_articles
                 => scr[s].pc \in {"LinkLoop", "PageEnd", "LoopTop", "Stopped",
                                   "Cancelled"}
            /\ scr[s].pc \in FetchingPcs => hist[s].saved < scr[s].max_articles

C8_Witness ==
    \E s \in Sessions :
        /\ scr[s].max_articles >= 1
        /\ hist[s].saved = scr[s].max_articles
        /\ scr[s].pc = "Stopped"
        /\ scr[s].link <= Len(scr[s].article_links)

\* a step of session s that handles a link whose URL is stored
SkipsStored(s) ==
    ( /\ scr[s].pc \in {"LinkLoop", "Scrape"}
      /\ scr'[s] # scr[s]
      /\ scr'[s].pc \notin {"Raised", "Cancelled"}
      /\ scr[s].link <= Len(scr[s].article_links)
      /\ ~CapReached(scr[s])
      /\ CurUrl(scr[s]) \in StoredUrls )
    => /\ scr'[s] = NextLink(scr[s])
       /\ hist'[s].saved = hist[s].saved

\* C9: an article page is fetched only for the link whose URL was absent
\* from the store at the existence check just before; a link whose URL is
\* stored is passed over without a fetch and without being counted.
C9_FetchOnlyAbsent ==
    /\ [](\A s \in Sessions :
            scr[s].pc = "FetchArticle" =>
                /\ hist[s].checkedUrl = CurUrl(scr[s])
                /\ hist[s].absentAtCheck)
    /\ [][\A s \in Sessions : SkipsStored(s)]_vars

C9_Witness ==
    \E s \in Sessions :
        /\ scr[s].pc = "FetchArticle"
        /\ hist[s].absentAtCheck
        /\ scr[s].link > 1
        /\ scr[s].article_links[1] \in StoredUrls
        /\ scr[s].new_on_page = 0

\* the three-link source of the scenario, crawled by one uncapped session
\* with threshold 1 from an empty store, every fetch and save succeeding
Scenario(s) ==
    /\ site = [pages |-> << <<1, 2, 3>> >>, tail |-> <<1, 2, 3>>]
    /\ scr[s].max_pages_without_new = 1
    /\ scr[s].max_articles = 0
    /\ \A o \in Sessions \ {s} : scr[o].pc = "Absent"
    /\ ArticleById(StoredBefore.id) = {}
    /\ hist[s].clean
    /\ scr[s].pc = "Stopped"

\* C10: the empty-page counter equals the number of consecutive processed
\* pages since the last page with a save; when it has reached the threshold
\* no page is fetched any more; in the scenario the session stops after
\* page 1 with exactly 3 documents saved.
C10_EmptyPageCounter ==
    \A s \in Sessions :
        /\ scr[s].pages_without_new = hist[s].emptyRun
        /\ scr[s].pc = "FetchPage"
             => scr[s].pages_without_new < scr[s].max_pages_without_new
        /\ scr[s].pages_without_new >= scr[s].max_pages_without_new
             => scr[s].pc \in {"LoopTop", "Stopped", "Cancelled"}
        /\ Scenario(s) =>
             /\ hist[s].saved = 3
             /\ Cardinality(articles) = 3
             /\ scr[s].page = 2
             /\ hist[s].pageFetches = 2

C10_Witness == \E s \in Sessions : Scenario(s) /\ scr[s].pages_without_new = 1

\* C11: in the paginating (USAO) session zero-link pages and pages whose
\* links bring nothing new are counted separately: a session that stopped
\* for lack of content (not by its cap, not by a failed fetch) has one of the
\* two consecutive counts at the threshold, so with a threshold above 1 a
\* single zero-link page does not stop it.
C11_IndependentCounters ==
    \A s \in Sessions :
        ( /\ scr[s].kind = "usao"
          /\ scr[s].pc = "Stopped"
          /\ hist[s].stop \notin {"cap", "fetch"} )
        => \/ hist[s].zeroRun >= scr[s].max_pages_without_new
           \/ hist[s].emptyRun >= scr[s].max_pages_without_new

FetchPcs == {"FetchPage", "FetchArticle"}

\* C13: fetch_page makes at most max_retries HTTP attempts for a URL, each
\* attempt after a failed one comes after the backoff sleep, and the failure
\* is reported after the last failed attempt; a session whose listing fetch
\* failed is Stopped, takes no further step (fetches no further page) and
\* the stored documents stay stored.
C13_BoundedRetries ==
    /\ [](\A s \in Sessions :
            /\ hist[s].requests <= max_retries
            /\ scr[s].pc \in FetchPcs =>
                  /\ scr[s].attempt < max_retries
                  /\ hist[s].requests = scr[s].attempt
                  /\ hist[s].backoffs = scr[s].attempt
                  /\ scr[s].attempt > 0 => hist[s].waited = RETRY_SLEEP
            /\ scr[s].pc \in {"BackoffPage", "BackoffArticle"} =>
                  /\ hist[s].requests = scr[s].attempt + 1
                  /\ hist[s].backoffs = scr[s].attempt
            /\ hist[s].stop = "fetch" =>
                  /\ scr[s].pc = "Stopped"
                  /\ hist[s].requests \in 1..max_retries
                  /\ hist[s].backoffs = hist[s].requests - 1
                  /\ Cardinality({a \in articles : a.id # StoredBefore.id})
                        >= hist[s].saved)
    /\ [][\A s \in Sessions :
            (hist[s].stop = "fetch" \/ hist'[s].stop = "fetch")
                => /\ articles \subseteq articles'
                   /\ hist'[s].pageFetches
                        = hist[s].pageFetches
                          + (IF scr[s].pc = "FetchPage" /\ hist[s].requests = 0
                             THEN 1 ELSE 0)
                   /\ hist[s].stop = "fetch" => scr'[s] = scr[s]]_vars

C13_Witness ==
    \E s \in Sessions :
        /\ hist[s].stop = "fetch"
        /\ scr[s].pc = "Stopped"
        /\ hist[s].requests = max_retries
        /\ hist[s].backoffs = max_retries - 1
        /\ scr[s].page > 0
        /\ hist[s].saved >= 1
        /\ Cardinality({a \in articles : a.id # StoredBefore.id}) = hist[s].saved

\* C14: a non-200 response is retried like an exception: whenever a listing
\* fetch is reported as failed, max_retries attempts were made for the URL.
C14_StatusRetried ==
    \A s \in Sessions :
        hist[s].stop = "fetch" => hist[s].requests = max_retries

\* a step of session s that sends an HTTP request
SendsRequest(s) ==
    /\ scr[s].pc \in FetchPcs
    /\ scr'[s] # scr[s]
    /\ scr'[s].pc # "Cancelled"

\* C15: a session sends its HTTP requests one at a time, and whenever it
\* sends one, listing page or article, at least SCRAPE_DELAY seconds of sleep
\* lie between it and the session's previous request.
C15_DelayBetweenRequests ==
    [][\A s \in Sessions : SendsRequest(s) => hist[s].waited >= SCRAPE_DELAY]_vars

\* a step of session s in which scrape_article fetched the page and could
\* not parse an article out of it
ParseFails(s) ==
    /\ scr[s].pc = "FetchArticle"
    /\ scr'[s].pc \notin {"FetchArticle", "Cancelled"}
    /\ hist'[s].lastScrape = "unparsed"

\* C16: an article that cannot be parsed or has no content is skipped: the
\* step persists nothing, leaves the saved count alone and moves the session
\* to the next link of the page; right after it the session is in its link
\* loop, not stopped, from where it goes on by the usual rules.
C16_ParseFailureSkipped ==
    /\ [][\A s \in Sessions :
            ParseFails(s) => /\ articles' = articles
                             /\ hist'[s].saved = hist[s].saved
                             /\ scr'[s] = NextLink(scr[s])]_vars
    /\ [](\A s \in Sessions :
            hist[s].lastScrape = "unparsed"
                => /\ scr[s].pc \in {"LinkLoop", "Cancelled"}
                   /\ hist[s].stop = "none")

\* link 1 of page 1 was just skipped after page 0 brought a save, and links
\* remain on the page
C16_Witness ==
    \E s \in Sessions :
        /\ hist[s].lastScrape = "unparsed"
        /\ scr[s].pc = "LinkLoop"
        /\ scr[s].page = 1
        /\ scr[s].link = 2
        /\ Len(scr[s].article_links) = 3
        /\ hist[s].saved >= 1

\* run_scrapers is over: every session has returned, was ended by an
\* exception, or will not be started any more
RunOver ==
    \A s \in Sessions :
        \/ scr[s].pc \in {"Absent", "Stopped", "Raised", "Cancelled"}
        \/ scr[s].pc = "Idle" /\ RunAborted

\* C17: whatever failed while one source was crawled, the multi-source run
\* is not aborted: when run_scrapers over two sources is over, the session
\* of every source in which nothing was raised has run until Stopped.
C17_ErrorsConfined ==
    (RunOver /\ {scr[s].kind : s \in Sessions} = Kinds)
        => \A s \in Sessions : scr[s].pc # "Raised" => scr[s].pc = "Stopped"

Started(s) == scr[s].pc \notin {"Absent", "Idle"}

\* C18: every started session comes to an end: it reaches Stopped, whatever
\* fetches, parses and saves fail and whatever is already stored, with or
\* without a cap (or it is ended by an exception of the store's existence
\* check, which is none of these failures).
C18_SessionsStop ==
    \A s \in Sessions :
        Started(s) ~> scr[s].pc \in {"Stopped", "Raised", "Cancelled"}

\* an uncapped session stopped after failures of every kind
C18_Witness ==
    \E s \in Sessions :
        /\ scr[s].pc = "Stopped"
        /\ scr[s].max_articles = 0
        /\ ~hist[s].clean
        /\ hist[s].stop = "threshold"
        /\ scr[s].page >= 2

\* ------------------------------------------------- properties (chunking)
Max(a, b) == IF a > b THEN a ELSE b
CeilDiv(a, b) == (a + b - 1) \div b

\* C19: a non-empty text of n words chunked with window w and overlap o
\* gives exactly ceil(max(n - o, 1) / (w - o)) chunks.
C19_ChunkCount ==
    (chk.pc = "done" /\ chk.n >= 1)
        => Len(chk.chunks) = CeilDiv(Max(chk.n - chk.o, 1), chk.w - chk.o)

\* C20: chunk number i (from 0) is the words [i*(w-o), min(i*(w-o)+w, n))
\* and has ordinal i; no chunk is empty; every word lies in a chunk; an empty
\* text gives no chunk; 620 words with w = 300, o = 50 give [0:300],
\* [250:550], [500:620].
C20_ChunkRanges ==
    chk.pc = "done" =>
        LET n == chk.n
            w == chk.w
            o == chk.o
            cs == chk.chunks
        IN  /\ \A k \in 1..Len(cs) :
                /\ cs[k].text = <<(k - 1) * (w - o), Min((k - 1) * (w - o) + w, n)>>
                /\ cs[k].index = k - 1
                /\ cs[k].text[1] < cs[k].text[2]
            /\ \A p \in 0..(n - 1) :
                \E k \in 1..Len(cs) : cs[k].text[1] <= p /\ p < cs[k].text[2]
            /\ n = 0 => cs = <<>>
            /\ (n = 620 /\ w = 300 /\ o = 50) =>
                  [k \in 1..Len(cs) |-> cs[k].text]
                      = << <<0, 300>>, <<250, 550>>, <<500, 620>> >>

C20_Witness ==
    /\ chk.pc = "done"
    /\ chk.n = 620 /\ chk.w = CHUNK_SIZE /\ chk.o = CHUNK_OVERLAP
    /\ Len(chk.chunks) = 3

\* ------------------------------------------------ properties (retrieval)
Results == srch.results
HitOf(r) == srch.hits[r.hit]

\* C21: the n results of a search carry the ranks 1..n in output order, also
\* when hits were dropped as orphaned or excluded by the filter.
C21_DenseRanks ==
    srch.pc = "done" =>
        \A j \in 1..Len(Results) : Results[j].rank = j

\* C22: results are in non-increasing score order, which is the ascending
\* distance order of the index hits, and results of equal distance keep the
\* order in which the index returned them.
C22_ScoreOrder ==
    \A a, b \in 1..Len(Results) :
        a < b =>
            /\ F32Leq(Results[b].score, Results[a].score)
            /\ F32Leq(HitOf(Results[a]).distance, HitOf(Results[b]).distance)
            /\ Results[a].hit < Results[b].hit

C22_Witness ==
    /\ srch.pc = "done"
    /\ \E a, b, c \in 1..Len(Results) :
          /\ a < b /\ b < c
          /\ HitOf(Results[a]).distance = HitOf(Results[b]).distance
          /\ F32Less(Results[c].score, Results[b].score)

\* the search loop run to its end over hits i.. with the given filter
RECURSIVE SearchLoop(_, _, _, _)
SearchLoop(hits, i, sources, results) ==
    IF i > Len(hits) THEN results
    ELSE SearchLoop(hits, i + 1, sources, Visit(hits[i], i, sources, results))

\* what a result shows of its chunk, without its rank
Shown(r) == [text |-> r.text, article_url |-> r.article_url,
             source |-> r.source, score |-> r.score]

RECURSIVE OfSource(_, _)
OfSource(results, S) ==
    IF results = <<>> THEN <<>>
    ELSE (IF Head(results).source \in S THEN <<Shown(Head(results))>> ELSE <<>>)
         \o OfSource(Tail(results), S)

Unfiltered == SearchLoop(srch.hits, 1, {}, <<>>)

\* C23: for the same index, store, query and k, a search with
\* sourceFilter = {S} returns exactly the results of the unfiltered search
\* whose document has source S, with the same scores and in the same
\* relative order, and no result of another source.
C23_FilterIsRestriction ==
    (srch.pc = "done" /\ srch.sources # {}) =>
        /\ [j \in 1..Len(Results) |-> Shown(Results[j])]
               = OfSource(Unfiltered, srch.sources)
        /\ \A j \in 1..Len(Results) : Results[j].source \in srch.sources

C23_Witness ==
    /\ srch.pc = "done"
    /\ srch.sources = {"usao"}
    /\ Len(Results) = 2
    /\ Len(Unfiltered) = 3
    /\ Unfiltered[1].source = "latimes"

\* the hit resolves to a persisted chunk whose owning document exists
Resolved(hit) ==
    LET chunk == get_chunk_by_faiss_id(hit.faiss_id)
    IN  chunk # <<>> /\ get_article(chunk[1].article_id) # <<>>

\* C24: every result comes from a hit whose vector id resolves to a persisted
\* chunk whose owning document exists; hits that resolve to no chunk or to
\* no document, the placeholders of a short index included, are dropped;
\* and there are at most k results.
C24_OnlyResolvedHits ==
    /\ Len(Results) <= srch.k
    /\ \A j \in 1..Len(Results) :
          /\ Resolved(HitOf(Results[j]))
          /\ Results[j].text
                = get_chunk_by_faiss_id(HitOf(Results[j]).faiss_id)[1].text
    /\ \A i \in 1..Len(srch.hits) :
          (i < srch.i /\ ~Resolved(srch.hits[i]))
              => \A j \in 1..Len(Results) : Results[j].hit # i

C24_Witness ==
    /\ srch.pc = "done"
    /\ Len(Results) = 1
    /\ \E i, j \in 1..Len(srch.hits) :
          /\ srch.hits[i] = Placeholder
          /\ j < Results[1].hit
          /\ get_chunk_by_faiss_id(srch.hits[j].faiss_id) # <<>>
          /\ ~Resolved(srch.hits[j])

\* C25: score = 1/(1+d) is strictly decreasing in d >= 0, distance 0 gives
\* score 1, and every score lies in (0, 1].
C25_ScoreStrictlyDecreasing ==
    /\ \A a, b \in 1..Len(Results) :
          F32Less(HitOf(Results[a]).distance, HitOf(Results[b]).distance)
              => F32Less(Results[b].score, Results[a].score)
    /\ \A a \in 1..Len(Results) :
          /\ HitOf(Results[a]).distance = F32Zero => Results[a].score = F32One
          /\ F32Less(F32Zero, Results[a].score)
          /\ F32Leq(Results[a].score, F32One)

\* ------------------------------------- properties (processing, reruns)
\* the chunk (document, ordinal) is persisted with a vector id and its
\* vector sits at that id in the index file
AlreadyIndexed(x) ==
    \E j \in 1..Len(chunksColl) :
        /\ chunksColl[j].article_id = x.article_id
        /\ chunksColl[j].chunk_index = x.chunk_index
        /\ chunksColl[j].faiss_id # None
        /\ chunksColl[j].faiss_id < Len(indexFile.vecs)
        /\ indexFile.vecs[chunksColl[j].faiss_id + 1] = Encode(chunksColl[j].text)

\* C26: re-running processing and indexing over documents that are already
\* processed and indexed changes nothing: no vector is appended and no
\* chunk is persisted for a chunk that is already indexed, whether the run
\* names no ids or the ids of processed documents.
C26_RerunChangesNothing ==
    [][\A c \in Coordinators :
          ~overlapped =>
            /\ (cpc[c] = "chunked" /\ cpc'[c] = "appended")
                 => \A i \in 1..Len(cbatch[c]) : ~AlreadyIndexed(cbatch[c][i])
            /\ (cpc[c] = "appended" /\ cpc'[c] = "persisted")
                 => \A i \in (Len(chunksColl) + 1)..Len(chunksColl') :
                        ~AlreadyIndexed(chunksColl'[i])]_vars

\* the step is a process_articles call of processor c
ProcessStep(c) == cpc[c] = "idle" /\ cpc'[c] = "chunked"

Named(c) == {ccall[c].ids[k] : k \in 1..Len(ccall[c].ids)}

\* the ordinals of the chunks the batch holds for document id, in order
OrdinalsOf(batch, id) ==
    LET Mine(x) == x.article_id = id
        mine == SelectSeq(batch, Mine)
    IN  [k \in 1..Len(mine) |-> mine[k].chunk_index]

\* C27: process_articles called with an explicit id set chunks and marks
\* processed exactly the documents of the set that exist, skips the ids
\* that do not resolve, and touches no document outside the set, for every
\* id set including the empty one.
C27_ExactlyTheNamed ==
    [][\A c \in Coordinators :
          (ProcessStep(c) /\ ccall[c].given) =>
              LET named == {a \in articles : a.id \in Named(c)}
              IN  /\ \A i \in 1..Len(cbatch'[c]) :
                        cbatch'[c][i].article_id \in {a.id : a \in named}
                  /\ \A a \in named :
                        /\ [a EXCEPT !.processed = TRUE] \in articles'
                        /\ OrdinalsOf(cbatch'[c], a.id) # <<>>
                              \/ create_chunks(a.words) = <<>>
                  /\ \A a \in articles \ named : a \in articles']_vars

EmptyBatchStep(c) ==
    /\ cbatch[c] = <<>>
    /\ cpc[c] \in {"chunked", "appended", "persisted"}
    /\ cpc'[c] \notin {cpc[c], "none"}

\* C29: index_chunks on an empty batch is a no-op: it returns at once, the
\* in-memory index, the index file and the chunk records are unchanged and
\* no embedding is computed.
C29_EmptyBatchNoOp ==
    [][\A c \in Coordinators :
          EmptyBatchStep(c) =>
              /\ cpc'[c] = "indexed"
              /\ cindex'[c] = cindex[c]
              /\ indexFile' = indexFile
              /\ chunksColl' = chunksColl
              /\ ccall'[c].encoded = 0]_vars

C29_Witness ==
    \E c \in Coordinators :
        /\ cpc[c] = "indexed"
        /\ cbatch[c] = <<>>
        /\ ccall[c].encoded = 0
        /\ ~indexFile.exists
        /\ \E a \in articles : a.processed

\* C30: when insert_chunks fails in index_chunks the call raises and the
\* index file is as before, and a retry of the same batch (on the same
\* processor or on one loaded anew from the file) ends with every chunk of
\* the batch persisted with a vector id at which its own vector sits in the
\* index: the retry's insert_chunks is accepted, and when the retry has
\* returned the chunks are persisted, aligned, and the file holds the index.
C30_RetryAfterFailure ==
    /\ [][\A c \in Coordinators :
            (cpc[c] = "appended" /\ cpc'[c] = "failed")
                => indexFile' = indexFile]_vars
    /\ [](\A c \in Coordinators :
            (cpc[c] = "appended" /\ ccall[c].retry) => CanInsert(c))
    /\ [](\A c \in Coordinators :
            (cpc[c] = "indexed" /\ ccall[c].retry) =>
                /\ indexFile.vecs = cindex[c]
                /\ \A i \in 1..Len(cbatch[c]) :
                      /\ \E j \in 1..Len(chunksColl) : chunksColl[j] = cbatch[c][i]
                      /\ cbatch[c][i].faiss_id # None
                      /\ cbatch[c][i].faiss_id < Len(cindex[c])
                      /\ cindex[c][cbatch[c][i].faiss_id + 1]
                            = Encode(cbatch[c][i].text))

\* C31: a component that loads the vector index while no index file exists
\* holds an empty index afterwards and has raised no error: the processor
\* when it is constructed, and the retriever when it is constructed.
C31_AbsentFileMeansEmptyIndex ==
    /\ [][\A c \in Coordinators :
            (cpc[c] = "none" /\ cpc'[c] = "idle" /\ ~indexFile.exists)
                => cindex'[c] = <<>>]_vars
    /\ [][(srch.pc = "new" /\ srch'.pc # "new" /\ ~indexFile.exists)
            => (srch'.pc = "ready" /\ srch'.dist = <<>>)]_vars

\* a is an initial part of b
IsPrefix(a, b) == Len(a) <= Len(b) /\ \A i \in 1..Len(a) : a[i] = b[i]

\* C32: the persisted vector index is append-only: no step makes it smaller,
\* and the vector at an id that was assigned stays at that id.
C32_AppendOnly == [][IsPrefix(indexFile.vecs, indexFile'.vecs)]_vars

\* C33: no step of a crawl session or of a processor removes a stored
\* document or takes its processed flag back: every document stored before
\* the step is stored after it, with the same url, and processed if it was
\* processed; this holds also for the save of a URL that is already stored.
C33_DocumentsKept ==
    [][\A a \in articles :
          \E b \in articles' : /\ b.id = a.id
                                /\ b.url = a.url
                                /\ (a.processed => b.processed)]_vars

\* a session's upsert found the URL stored by a document that is processed
C33_Witness ==
    \E s \in Sessions :
        /\ scr[s].pc = "UpsertWrite"
        /\ scr[s].matched # {}
        /\ \E a \in articles : a.url = scr[s].article.url /\ a.processed

\* the document a chunk belongs to is stored and marked processed
OfProcessed(chunk) ==
    \E a \in articles : a.id = chunk.article_id /\ a.processed

\* C34: every persisted chunk belongs to a stored document whose processed
\* flag is true, and so does every chunk whose vector a processor has
\* appended to its index: the document is marked before index_chunks runs.
C34_ProcessedBeforeIndexed ==
    /\ \A j \in 1..Len(chunksColl) : OfProcessed(chunksColl[j])
    /\ \A c \in Coordinators :
          cpc[c] \in {"appended", "persisted", "indexed", "failed"} =>
              \A i \in 1..Len(cbatch[c]) : OfProcessed(cbatch[c][i])

C34_Witness ==
    \E c \in Coordinators :
        /\ cpc[c] = "persisted"
        /\ cbatch[c] # <<>>
        /\ \E j \in 1..Len(chunksColl) :
              /\ chunksColl[j] = cbatch[c][1]
              /\ chunksColl[j].article_id \in DocIds

\* C35: every call of scrape_all_articles, the first on a scraper object and
\* any later one, starts with the count of saved documents and the count of
\* pages without new documents at zero, as a call on a new object does.
C35_CountersPerCall ==
    [][\A s \in Sessions :
          (scr[s].pc \in {"Idle", "Stopped"} /\ scr'[s].pc = "LoopTop")
              => /\ scr'[s].new_articles_found = 0
                 /\ scr'[s].pages_without_new = 0]_vars

\* C36: scrape_source returns exactly the documents its own crawl session
\* newly saved, also when another session of the same source saves
\* documents at the same time, and nothing when the session saved nothing.
C36_ReturnsOwnSaves ==
    \A s \in Sessions :
        scr[s].pc = "Reported" => hist[s].returned = hist[s].savedIds

\* no document is unprocessed, every document has each chunk of its body
\* persisted exactly once and no other, and the persisted chunks are as many
\* as the vectors of the index file
Drained ==
    /\ \A a \in articles : a.processed
    /\ \A a \in articles :
          \A k \in 0..(Len(create_chunks(a.words)) - 1) :
              Cardinality({j \in 1..Len(chunksColl) :
                              /\ chunksColl[j].article_id = a.id
                              /\ chunksColl[j].chunk_index = k}) = 1
    /\ \A j \in 1..Len(chunksColl) :
          \E a \in articles :
              /\ chunksColl[j].article_id = a.id
              /\ chunksColl[j].chunk_index < Len(create_chunks(a.words))
    /\ Len(chunksColl) = Len(indexFile.vecs)

\* C37: process_articles without ids, called again and again and each time
\* followed by index_chunks on its result, with no new documents and no
\* failures, comes to a state where no document is unprocessed, every
\* document was chunked exactly once and the persisted chunks are as many as
\* the vectors of the index.
C37_EventuallyDrained == <>Drained

\* a store of more than one batch was drained, by more than one call
C37_Witness ==
    /\ Drained
    /\ Cardinality(articles) > BATCH_SIZE
    /\ Len(chunksColl) = 4
    /\ \E c \in Coordinators : cpc[c] = "indexed" /\ Len(cbatch[c]) = 2

\* C38: a session started with max_articles = 0 saves no document and
\* fetches no article.
C38_ZeroCapSavesNothing ==
    \A s \in Sessions :
        (scr[s].max_articles = 0 /\ scr[s].pc # "Absent") =>
            /\ hist[s].saved = 0
            /\ scr[s].pc \notin {"FetchArticle", "BackoffArticle"}

\* C39: a session of the finite-page variant (LATimesScraper) that has
\* stopped after its first listing page was fetched, on a source whose first
\* page links an article no document of the store has, saved at least one
\* document.
C39_FinitePageSaves ==
    \A s \in Sessions :
        (/\ scr[s].kind = "latimes"
         /\ scr[s].pc = "Stopped"
         /\ hist[s].stop # "fetch"
         /\ \E i \in 1..Len(PageLinks(0)) : PageLinks(0)[i] \notin StoredUrls) =>
            hist[s].saved >= 1

====
